---- MODULE Spec2Model ----
(***************************************************************************)
(* sngrep packet core: src/storage/packet/packet.c                         *)
(*                                                                         *)
(* One Packet (GObject, reference counted) with its protocol slot table,   *)
(* its frame list and its two cached addresses; the dissector registry     *)
(* consulted by the teardown; and the pure queries packet_transport,       *)
(* packet_time, packet_first_frame and packet_time_sorter.                 *)
(***************************************************************************)
EXTENDS Integers, Sequences, FiniteSets, TLC

(***************************************************************************)
(* Bounds of the model.                                                    *)
(***************************************************************************)
\* references outstanding at once (the creator's included)
MaxRefs == 3
\* frames appended to one Packet
MaxFrames == 3
\* consumer threads of the concurrent specification
NumThreads == 2

(***************************************************************************)
(* Protocol kinds: the closed enumeration that indexes the slot table.     *)
(***************************************************************************)
PACKET_PROTO_IP == 0
PACKET_PROTO_UDP == 1
PACKET_PROTO_TCP == 2
PACKET_PROTO_TLS == 3
PACKET_PROTO_WS == 4
PACKET_PROTO_SIP == 5
PACKET_PROTO_COUNT == 6

Kinds == 0 .. (PACKET_PROTO_COUNT - 1)
Threads == 1 .. NumThreads

\* a NULL pointer; a non-NULL pointer p to an object x is the tuple <<x>>
NULL == <<>>
Deref(p) == p[1]

(***************************************************************************)
(* guint64 values, kept at their full width as four 16-bit limbs, least    *)
(* significant first; gint is a 32-bit two's complement integer.           *)
(***************************************************************************)
LimbBase == 2 ^ 16
HalfLimb == 2 ^ 15
LimbMax == LimbBase - 1

U64(n) == << n % LimbBase, n \div LimbBase, 0, 0 >>
Zero64 == U64(0)

\* a - b on guint64: wraps modulo 2^64
Borrow(a, b, i) ==
  LET RECURSIVE B(_)
      B(j) == IF j = 0 THEN 0
              ELSE IF a[j] - b[j] - B(j - 1) < 0 THEN 1 ELSE 0
  IN B(i)

SubLimb(a, b, i) == (a[i] - b[i] - Borrow(a, b, i - 1)) % LimbBase

Sub64(a, b) == << SubLimb(a, b, 1), SubLimb(a, b, 2), SubLimb(a, b, 3), SubLimb(a, b, 4) >>

\* (gint) x for a guint64 x: the low 32 bits, read as two's complement
ToGint(x) ==
  IF x[2] >= HalfLimb THEN (x[2] - LimbBase) * LimbBase + x[1]
  ELSE x[2] * LimbBase + x[1]

\* -1, 0, 1 as a is below, equal to or above b (guint64 order)
Cmp64(a, b) ==
  LET RECURSIVE C(_)
      C(i) == IF i = 0 THEN 0
              ELSE IF a[i] < b[i] THEN -1
              ELSE IF a[i] > b[i] THEN 1
              ELSE C(i - 1)
  IN C(4)

Sign(n) == IF n < 0 THEN -1 ELSE IF n > 0 THEN 1 ELSE 0

VARIABLES
  refcount,     \* GObject reference count of the Packet
  holds,        \* references each thread holds (caller discipline)
  acquired,     \* packet_ref calls made so far
  tpc,          \* per thread: "idle", or "dispose" between the last decrement and the teardown
  proto,        \* packet->proto: slot table, kind -> pointer to parsed data
  frames,       \* packet->frames: frames in append order
  src,          \* packet->src: cached source address
  dst,          \* packet->dst: cached destination address
  nAddr,        \* Address objects constructed so far (allocation identity)
  registry,     \* kinds the dissector registry has a dissector for
  freed,        \* teardown log: every lookup and free, in order
  disposeRuns,  \* times packet_dispose has run
  ret,          \* the last call made and what it returned
  sortA,        \* frame list of the sorter's first Packet
  sortB         \* frame list of the sorter's second Packet

vars == << refcount, holds, acquired, tpc, proto, frames, src, dst, nAddr, registry,
           freed, disposeRuns, ret, sortA, sortB >>
pktvars == << proto, frames, src, dst, nAddr >>
sortvars == << sortA, sortB >>

(***************************************************************************)
(* Collaborators of packet.c: slot access, the frame list, Address, the    *)
(* dissector registry.                                                     *)
(***************************************************************************)
\* packet_has_type(packet, id): the slot holds parsed data
packet_has_type(p, id) == p[id] # NULL

\* packet_ip_data(packet): the IP slot
packet_ip_data(p) == p[PACKET_PROTO_IP]

\* address_new(ip, port): a fresh Address object; id is its allocation identity
address_new(ip, port, id) == [ ip |-> ip, port |-> port, id |-> id ]

\* parsed data a dissector may store in a slot
IpChoices == { [ srcip |-> "10.0.0.1", dstip |-> "10.0.0.2" ],
               [ srcip |-> "10.0.0.2", dstip |-> "10.0.0.1" ] }
UdpChoices == { [ sport |-> 5060, dport |-> 5061 ],
                [ sport |-> 5062, dport |-> 5060 ] }
TcpChoices == { [ sport |-> 6060, dport |-> 6061, seq |-> 1 ],
                [ sport |-> 6062, dport |-> 6060, seq |-> 1 ] }

SlotData(k) ==
  IF k = PACKET_PROTO_IP THEN IpChoices
  ELSE IF k = PACKET_PROTO_UDP THEN UdpChoices
  ELSE IF k = PACKET_PROTO_TCP THEN TcpChoices
  ELSE { [ kind |-> k ] }

DefaultData(k) ==
  IF k = PACKET_PROTO_IP THEN [ srcip |-> "10.0.0.1", dstip |-> "10.0.0.2" ]
  ELSE IF k = PACKET_PROTO_UDP THEN [ sport |-> 5060, dport |-> 5061 ]
  ELSE IF k = PACKET_PROTO_TCP THEN [ sport |-> 6060, dport |-> 6061, seq |-> 1 ]
  ELSE [ kind |-> k ]

\* PacketTcpData read through a PacketUdpData pointer: both begin with sport, dport
AsUdpData(tcp) == [ sport |-> tcp.sport, dport |-> tcp.dport ]

\* g_list_last_data / g_list_first_data: data of the last / first node, NULL on an empty list
g_list_last_data(list) == IF list = <<>> THEN NULL ELSE << list[Len(list)] >>
g_list_first_data(list) == IF list = <<>> THEN NULL ELSE << list[1] >>

\* storage_find_dissector(id): the registered dissector, NULL when there is none
storage_find_dissector(id) == IF id \in registry THEN << id >> ELSE NULL

\* packet_dissector_free_data(dissector, packet): the dissector's free capability
\* on the slot's data; with no dissector the slot's cleanup is skipped
packet_dissector_free_data(dissector, id) ==
  IF dissector = NULL THEN <<>> ELSE << << "free_data", id >> >>

(***************************************************************************)
(* packet.c                                                                *)
(***************************************************************************)
\* packet_init: a slot table of PACKET_PROTO_COUNT NULL entries
packet_init == [ k \in Kinds |-> NULL ]

\* packet_proto_free without its packet_has_type check
packet_proto_free_unchecked(id, p) ==
  << << "find_dissector", id >> >>
  \o packet_dissector_free_data(storage_find_dissector(id), id)

\* packet_proto_free: what one slot's cleanup does, as log entries
packet_proto_free(id, p) ==
  IF packet_has_type(p, id)
  THEN << << "find_dissector", id >> >>
       \o packet_dissector_free_data(storage_find_dissector(id), id)
  ELSE <<>>

\* g_ptr_array_foreach_idx(packet->proto, packet_proto_free, packet), from index i on
RECURSIVE g_ptr_array_foreach_idx(_, _)
g_ptr_array_foreach_idx(i, p) ==
  IF i >= PACKET_PROTO_COUNT THEN <<>>
  ELSE packet_proto_free(i, p) \o g_ptr_array_foreach_idx(i + 1, p)

\* g_list_free_full(packet->frames, packet_frame_free)
packet_frame_free(fr) == [ i \in 1 .. Len(fr) |-> << "frame_free", i >> ]

\* address_free(address)
address_free(a) == IF a = NULL THEN <<>> ELSE << << "address_free", Deref(a).id >> >>

\* packet_free giving up after the slots when a dissector was missing
packet_free_abort_on_miss(p, fr, s, d) ==
  IF \E k \in Kinds : packet_has_type(p, k) /\ storage_find_dissector(k) = NULL
  THEN g_ptr_array_foreach_idx(0, p)
  ELSE g_ptr_array_foreach_idx(0, p) \o packet_frame_free(fr)
       \o address_free(s) \o address_free(d)

\* packet_free: slots, then frames, then the two cached addresses
packet_free(p, fr, s, d) ==
  g_ptr_array_foreach_idx(0, p) \o packet_frame_free(fr) \o address_free(s) \o address_free(d)

\* a packet_ref whose increment is lost
packet_ref_lost(rc) == rc

\* packet_ref / packet_unref: g_object_ref / g_object_unref on the count
packet_ref(rc) == rc + 1
packet_unref(rc) == rc - 1

\* a dispose that already runs when another reference is left
DisposeOnUnref_early(old) == old <= 2

\* packet_dispose is the class's dispose: GObject runs it when the count that
\* g_object_unref found is 1
DisposeOnUnref(old) == old = 1

\* packet_src_address without the check of the cached value
packet_src_address_uncached(p, cached, id) ==
  LET ip == packet_ip_data(p)
  IN IF ip = NULL THEN NULL
     ELSE IF packet_has_type(p, PACKET_PROTO_UDP)
          THEN << address_new(Deref(ip).srcip, Deref(p[PACKET_PROTO_UDP]).sport, id) >>
          ELSE IF p[PACKET_PROTO_TCP] = NULL THEN NULL
               ELSE << address_new(Deref(ip).srcip, Deref(p[PACKET_PROTO_TCP]).sport, id) >>

\* packet_src_address without the check of the TCP slot: an Address with no port
packet_src_address_unchecked(p, cached, id) ==
  IF cached = NULL
  THEN LET ip == packet_ip_data(p)
       IN IF ip = NULL THEN NULL
          ELSE IF packet_has_type(p, PACKET_PROTO_UDP)
               THEN << address_new(Deref(ip).srcip, Deref(p[PACKET_PROTO_UDP]).sport, id) >>
               ELSE IF p[PACKET_PROTO_TCP] = NULL
                    THEN << address_new(Deref(ip).srcip, 0, id) >>
                    ELSE << address_new(Deref(ip).srcip, Deref(p[PACKET_PROTO_TCP]).sport, id) >>
  ELSE cached

packet_src_address(p, cached, id) ==
  IF cached = NULL
  THEN LET ip == packet_ip_data(p)
       IN IF ip = NULL THEN NULL
          ELSE IF packet_has_type(p, PACKET_PROTO_UDP)
               THEN LET udp == p[PACKET_PROTO_UDP]
                    IN IF udp = NULL THEN NULL
                       ELSE << address_new(Deref(ip).srcip, Deref(udp).sport, id) >>
               ELSE LET tcp == p[PACKET_PROTO_TCP]
                    IN IF tcp = NULL THEN NULL
                       ELSE << address_new(Deref(ip).srcip, Deref(tcp).sport, id) >>
  ELSE cached

\* packet_dst_address taking the TCP source port
packet_dst_address_sport(p, cached, id) ==
  IF cached = NULL
  THEN LET ip == packet_ip_data(p)
       IN IF ip = NULL THEN NULL
          ELSE IF packet_has_type(p, PACKET_PROTO_UDP)
               THEN << address_new(Deref(ip).dstip, Deref(p[PACKET_PROTO_UDP]).dport, id) >>
               ELSE IF p[PACKET_PROTO_TCP] = NULL THEN NULL
                    ELSE << address_new(Deref(ip).dstip, Deref(p[PACKET_PROTO_TCP]).sport, id) >>
  ELSE cached

packet_dst_address(p, cached, id) ==
  IF cached = NULL
  THEN LET ip == packet_ip_data(p)
       IN IF ip = NULL THEN NULL
          ELSE IF packet_has_type(p, PACKET_PROTO_UDP)
               THEN LET udp == p[PACKET_PROTO_UDP]
                    IN IF udp = NULL THEN NULL
                       ELSE << address_new(Deref(ip).dstip, Deref(udp).dport, id) >>
               ELSE LET tcp == p[PACKET_PROTO_TCP]
                    IN IF tcp = NULL THEN NULL
                       ELSE << address_new(Deref(ip).dstip, AsUdpData(Deref(tcp)).dport, id) >>
  ELSE cached

\* packet_transport testing WS where it should test TLS
packet_transport_ws_for_tls(p) ==
  IF packet_has_type(p, PACKET_PROTO_UDP) THEN "UDP"
  ELSE IF packet_has_type(p, PACKET_PROTO_TCP)
       THEN IF packet_has_type(p, PACKET_PROTO_WS)
            THEN (IF packet_has_type(p, PACKET_PROTO_TLS) THEN "WSS" ELSE "WS")
            ELSE (IF packet_has_type(p, PACKET_PROTO_WS) THEN "TLS" ELSE "TCP")
       ELSE "???"

packet_transport(p) ==
  IF packet_has_type(p, PACKET_PROTO_UDP) THEN "UDP"
  ELSE IF packet_has_type(p, PACKET_PROTO_TCP)
       THEN IF packet_has_type(p, PACKET_PROTO_WS)
            THEN (IF packet_has_type(p, PACKET_PROTO_TLS) THEN "WSS" ELSE "WS")
            ELSE (IF packet_has_type(p, PACKET_PROTO_TLS) THEN "TLS" ELSE "TCP")
       ELSE "???"

\* packet_time taking the greatest timestamp instead of the last frame's
packet_time_max(fr) ==
  IF fr = <<>> THEN Zero64
  ELSE LET all == { fr[i].ts : i \in 1 .. Len(fr) }
       IN CHOOSE t \in all : \A u \in all : Cmp64(u, t) <= 0

packet_time(fr) ==
  LET last == g_list_last_data(fr)
  IN IF last = NULL THEN Zero64 ELSE Deref(last).ts

packet_time_sorter(a, b) == ToGint(Sub64(packet_time(a), packet_time(b)))

packet_first_frame(fr) == IF fr = <<>> THEN NULL ELSE g_list_first_data(fr)

(***************************************************************************)
(* Operations on the Packet.  A caller acts on the Packet only while it    *)
(* holds a reference; thread 1 is the dissection path that created it.     *)
(***************************************************************************)
Sum(h) ==
  LET RECURSIVE S(_)
      S(t) == IF t = 0 THEN 0 ELSE h[t] + S(t - 1)
  IN S(NumThreads)

Idle == \A t \in Threads : tpc[t] = "idle"

\* packet_new: refcount 1, empty slot table, no frames, nothing cached
PacketFresh(reg) ==
  /\ refcount = 1
  /\ holds = [ t \in Threads |-> IF t = 1 THEN 1 ELSE 0 ]
  /\ acquired = 0
  /\ tpc = [ t \in Threads |-> "idle" ]
  /\ proto = packet_init
  /\ frames = <<>>
  /\ src = NULL
  /\ dst = NULL
  /\ nAddr = 0
  /\ registry = reg
  /\ freed = <<>>
  /\ disposeRuns = 0
  /\ ret = << "packet_new", NULL >>

InitPacket(reg) ==
  /\ PacketFresh(reg)
  /\ sortA = <<>>
  /\ sortB = <<>>

\* packet_dispose -> packet_free: the teardown; what it freed is gone afterwards
Dispose ==
  /\ freed' = freed \o packet_free(proto, frames, src, dst)
  /\ disposeRuns' = disposeRuns + 1
  /\ proto' = packet_init
  /\ frames' = <<>>
  /\ src' = NULL
  /\ dst' = NULL
  /\ nAddr' = nAddr

PacketRef ==
  /\ holds[1] >= 1 /\ Idle
  /\ acquired < MaxRefs
  /\ refcount' = packet_ref(refcount)
  /\ holds' = [ holds EXCEPT ![1] = @ + 1 ]
  /\ acquired' = acquired + 1
  /\ ret' = << "packet_ref", NULL >>
  /\ UNCHANGED << tpc, pktvars, registry, freed, disposeRuns, sortvars >>

PacketUnref ==
  /\ holds[1] >= 1 /\ Idle
  /\ refcount' = packet_unref(refcount)
  /\ holds' = [ holds EXCEPT ![1] = @ - 1 ]
  /\ IF DisposeOnUnref(refcount)
     THEN Dispose
     ELSE UNCHANGED << pktvars, freed, disposeRuns >>
  /\ ret' = << "packet_unref", NULL >>
  /\ UNCHANGED << acquired, tpc, registry, sortvars >>

\* the dissector chain stores a layer's parsed data in its (empty) slot
SetSlot(k, d) ==
  /\ holds[1] >= 1 /\ Idle
  /\ proto[k] = NULL
  /\ proto' = [ proto EXCEPT ![k] = << d >> ]
  /\ ret' = << "set_slot", NULL >>
  /\ UNCHANGED << refcount, holds, acquired, tpc, frames, src, dst, nAddr, registry,
                  freed, disposeRuns, sortvars >>

\* a captured frame is appended to packet->frames
AppendFrame(ts) ==
  /\ holds[1] >= 1 /\ Idle
  /\ Len(frames) < MaxFrames
  /\ frames' = Append(frames, [ ts |-> ts ])
  /\ ret' = << "append_frame", NULL >>
  /\ UNCHANGED << refcount, holds, acquired, tpc, proto, src, dst, nAddr, registry,
                  freed, disposeRuns, sortvars >>

SrcAddress ==
  /\ holds[1] >= 1 /\ Idle
  /\ src' = packet_src_address(proto, src, nAddr + 1)
  /\ nAddr' = IF src' # src THEN nAddr + 1 ELSE nAddr
  /\ ret' = << "packet_src_address", src' >>
  /\ UNCHANGED << refcount, holds, acquired, tpc, proto, frames, dst, registry,
                  freed, disposeRuns, sortvars >>

DstAddress ==
  /\ holds[1] >= 1 /\ Idle
  /\ dst' = packet_dst_address(proto, dst, nAddr + 1)
  /\ nAddr' = IF dst' # dst THEN nAddr + 1 ELSE nAddr
  /\ ret' = << "packet_dst_address", dst' >>
  /\ UNCHANGED << refcount, holds, acquired, tpc, proto, frames, src, registry,
                  freed, disposeRuns, sortvars >>

PacketTransport ==
  /\ holds[1] >= 1 /\ Idle
  /\ ret' = << "packet_transport", packet_transport(proto) >>
  /\ UNCHANGED << refcount, holds, acquired, tpc, pktvars, registry, freed, disposeRuns, sortvars >>

PacketTime ==
  /\ holds[1] >= 1 /\ Idle
  /\ ret' = << "packet_time", packet_time(frames) >>
  /\ UNCHANGED << refcount, holds, acquired, tpc, pktvars, registry, freed, disposeRuns, sortvars >>

PacketFirstFrame ==
  /\ holds[1] >= 1 /\ Idle
  /\ ret' = << "packet_first_frame", packet_first_frame(frames) >>
  /\ UNCHANGED << refcount, holds, acquired, tpc, pktvars, registry, freed, disposeRuns, sortvars >>

(***************************************************************************)
(* Spec: the life of one Packet, from packet_new to its teardown, with a   *)
(* registry that may lack one kind's dissector.                            *)
(***************************************************************************)
Registries == { Kinds } \cup { Kinds \ { k } : k \in Kinds }

Ts100 == U64(100)

Init == \E reg \in Registries : InitPacket(reg)

Next ==
  \/ PacketRef
  \/ PacketUnref
  \/ \E k \in Kinds : SetSlot(k, DefaultData(k))
  \/ AppendFrame(Ts100)
  \/ SrcAddress
  \/ DstAddress

Spec == Init /\ [][Next]_vars

(***************************************************************************)
(* SpecAddr: address derivation over every choice of IP, UDP and TCP data. *)
(***************************************************************************)
AddrKinds == { PACKET_PROTO_IP, PACKET_PROTO_UDP, PACKET_PROTO_TCP }

InitAddr == InitPacket(Kinds)

NextAddr ==
  \/ PacketRef
  \/ PacketUnref
  \/ \E k \in AddrKinds : \E d \in SlotData(k) : SetSlot(k, d)
  \/ AppendFrame(Ts100)
  \/ SrcAddress
  \/ DstAddress

SpecAddr == InitAddr /\ [][NextAddr]_vars

(***************************************************************************)
(* SpecQuery: the transport label and the frame queries.                   *)
(***************************************************************************)
Timestamps == { U64(100), U64(200), U64(300) }

InitQuery == InitPacket(Kinds)

NextQuery ==
  \/ \E k \in Kinds : SetSlot(k, DefaultData(k))
  \/ \E ts \in Timestamps : AppendFrame(ts)
  \/ PacketTransport
  \/ PacketTime
  \/ PacketFirstFrame

SpecQuery == InitQuery /\ [][NextQuery]_vars

(***************************************************************************)
(* SpecConc: a published Packet shared by consumer threads.  g_object_ref  *)
(* and g_object_unref change the count atomically; the thread whose        *)
(* g_object_unref found the count at 1 then runs packet_dispose.           *)
(***************************************************************************)
PublishedSlots == { [ k \in Kinds |-> IF k \in S THEN << DefaultData(k) >> ELSE NULL ] :
                    S \in SUBSET Kinds }

InitConc ==
  /\ refcount = 1
  /\ holds = [ t \in Threads |-> IF t = 1 THEN 1 ELSE 0 ]
  /\ acquired = 0
  /\ tpc = [ t \in Threads |-> "idle" ]
  /\ proto \in PublishedSlots
  /\ frames = << [ ts |-> Ts100 ] >>
  /\ src = NULL
  /\ dst = NULL
  /\ nAddr = 0
  /\ registry = Kinds
  /\ freed = <<>>
  /\ disposeRuns = 0
  /\ ret = << "packet_new", NULL >>
  /\ sortA = <<>>
  /\ sortB = <<>>

\* thread t, holding a reference, takes one more for thread u
ThreadRef(t, u) ==
  /\ holds[t] >= 1 /\ tpc[t] = "idle" /\ tpc[u] = "idle"
  /\ acquired < MaxRefs
  /\ refcount' = packet_ref(refcount)
  /\ holds' = [ holds EXCEPT ![u] = @ + 1 ]
  /\ acquired' = acquired + 1
  /\ ret' = << "packet_ref", u >>
  /\ UNCHANGED << tpc, pktvars, registry, freed, disposeRuns, sortvars >>

\* thread t releases one of its references: the atomic decrement
ThreadUnref(t) ==
  /\ holds[t] >= 1 /\ tpc[t] = "idle"
  /\ refcount' = packet_unref(refcount)
  /\ holds' = [ holds EXCEPT ![t] = @ - 1 ]
  /\ tpc' = [ tpc EXCEPT ![t] = IF DisposeOnUnref(refcount) THEN "dispose" ELSE "idle" ]
  /\ ret' = << "packet_unref", t >>
  /\ UNCHANGED << acquired, pktvars, registry, freed, disposeRuns, sortvars >>

\* the thread that dropped the last reference runs the teardown
ThreadDispose(t) ==
  /\ tpc[t] = "dispose"
  /\ Dispose
  /\ tpc' = [ tpc EXCEPT ![t] = "idle" ]
  /\ ret' = << "packet_dispose", t >>
  /\ UNCHANGED << refcount, holds, acquired, registry, sortvars >>

NextConc ==
  \/ \E t \in Threads : \E u \in Threads : ThreadRef(t, u)
  \/ \E t \in Threads : ThreadUnref(t)
  \/ \E t \in Threads : ThreadDispose(t)

SpecConc == InitConc /\ [][NextConc]_vars

(***************************************************************************)
(* SpecSort: packet_time_sorter on two Packets.                            *)
(***************************************************************************)
\* 0, 1, 100, 2^31 - 1, 2^31, 2^32, 2^32 + 1, 2^64 - 1
SortTimestamps ==
  { U64(0), U64(1), U64(100),
    << LimbMax, HalfLimb - 1, 0, 0 >>,
    << 0, HalfLimb, 0, 0 >>,
    << 0, 0, 1, 0 >>,
    << 1, 0, 1, 0 >>,
    << LimbMax, LimbMax, LimbMax, LimbMax >> }

SortFrames == { [ ts |-> t ] : t \in SortTimestamps }

SortLists == { <<>> } \cup { << f >> : f \in SortFrames }
             \cup { << f, g >> : f \in { [ ts |-> U64(100) ] }, g \in SortFrames }

InitSort ==
  /\ PacketFresh(Kinds)
  /\ sortA \in SortLists
  /\ sortB \in SortLists

\* the sort callback of a packet array, on elements a and b
PacketTimeSorter ==
  /\ ret' = << "packet_time_sorter", packet_time_sorter(sortA, sortB) >>
  /\ UNCHANGED << refcount, holds, acquired, tpc, pktvars, registry, freed,
                  disposeRuns, sortvars >>

NextSort == PacketTimeSorter

SpecSort == InitSort /\ [][NextSort]_vars

(***************************************************************************)
(* Properties.                                                             *)
(***************************************************************************)
Count(log, e) == Cardinality({ i \in 1 .. Len(log) : log[i] = e })
Places(log, op) == { i \in 1 .. Len(log) : log[i][1] = op }
Before(I, J) == \A i \in I : \A j \in J : i < j
Populated(p) == { k \in Kinds : p[k] # NULL }

\* the step ran the teardown
TeardownStep == disposeRuns' # disposeRuns

\* C1: the teardown runs only on the refcount transition 1 -> 0 and only once
\* per Packet, so nothing is freed twice; while the references acquired and
\* released balance the Packet stays alive and intact, and the release after
\* that runs the single teardown.
C1_DestroyOnceOnLastUnref ==
  [][ /\ TeardownStep => /\ refcount = 1 /\ refcount' = 0
                         /\ disposeRuns = 0 /\ disposeRuns' = 1
      /\ refcount' >= 1 => disposeRuns' = 0
      /\ \A i \in 1 .. Len(freed') : Count(freed', freed'[i]) = 1
      /\ holds'[1] >= 1 => /\ disposeRuns' = 0
                           /\ refcount' = holds'[1]
                           /\ freed' = <<>>
                           /\ ret'[1] = "packet_unref" => UNCHANGED pktvars
      /\ holds'[1] = 0 => disposeRuns' = 1
    ]_vars

\* C1 witness: references were acquired and all released, and the last release
\* tore down a Packet with slot data, a frame and both cached addresses.
C1_Witness ==
  /\ acquired >= 2 /\ refcount = 0 /\ disposeRuns = 1
  /\ Places(freed, "free_data") # {}
  /\ Places(freed, "frame_free") # {}
  /\ Cardinality(Places(freed, "address_free")) = 2

Labels == { "UDP", "TCP", "TLS", "WS", "WSS", "???" }

\* the label table of the design, over the UDP, TCP, WS and TLS slots only
TransportTable(p) ==
  LET U == p[PACKET_PROTO_UDP] # NULL
      T == p[PACKET_PROTO_TCP] # NULL
      W == p[PACKET_PROTO_WS] # NULL
      L == p[PACKET_PROTO_TLS] # NULL
  IN CASE U -> "UDP"
       [] ~U /\ T /\ W /\ L -> "WSS"
       [] ~U /\ T /\ W /\ ~L -> "WS"
       [] ~U /\ T /\ ~W /\ L -> "TLS"
       [] ~U /\ T /\ ~W /\ ~L -> "TCP"
       [] ~U /\ ~T -> "???"

\* C4: packet_transport returns the label the table gives for the populated
\* UDP, TCP, WS and TLS slots, one of the six literals, and changes nothing.
C4_TransportTable ==
  [][ ret'[1] = "packet_transport" =>
        /\ ret'[2] = TransportTable(proto)
        /\ ret'[2] \in Labels
        /\ UNCHANGED << refcount, holds, pktvars, freed, disposeRuns >>
    ]_vars

\* C4 witness: the label asked for with WS and TLS populated but neither UDP nor TCP.
C4_Witness ==
  /\ ret = << "packet_transport", "???" >>
  /\ proto[PACKET_PROTO_WS] # NULL /\ proto[PACKET_PROTO_TLS] # NULL
  /\ proto[PACKET_PROTO_UDP] = NULL /\ proto[PACKET_PROTO_TCP] = NULL

\* C5: once cached, src and dst stay the same Address object until the teardown,
\* whatever else is done to the Packet, and every later query returns that object
\* and constructs nothing.
C5_AddressWriteOnce ==
  [][ /\ (src # NULL /\ disposeRuns' = 0) =>
           /\ src' = src
           /\ ret'[1] = "packet_src_address" => (ret'[2] = src /\ nAddr' = nAddr)
      /\ (dst # NULL /\ disposeRuns' = 0) =>
           /\ dst' = dst
           /\ ret'[1] = "packet_dst_address" => (ret'[2] = dst /\ nAddr' = nAddr)
    ]_vars

\* C5 witness: a source address cached from the TCP port, queried again after
\* the UDP slot was populated too: the query returned the cached object.
C5_Witness ==
  /\ ret[1] = "packet_src_address" /\ src # NULL /\ ret[2] = src
  /\ proto[PACKET_PROTO_UDP] # NULL /\ proto[PACKET_PROTO_TCP] # NULL
  /\ Deref(src).port = Deref(proto[PACKET_PROTO_TCP]).sport

MissingLayer(p) ==
  \/ p[PACKET_PROTO_IP] = NULL
  \/ (p[PACKET_PROTO_UDP] = NULL /\ p[PACKET_PROTO_TCP] = NULL)

\* C7: an address query on a Packet without the IP slot, or with IP but neither
\* UDP nor TCP, returns NULL and changes nothing; once the layers are there the
\* query succeeds and caches the Address.
C7_MissingLayer ==
  [][ /\ (ret'[1] = "packet_src_address" /\ src = NULL) =>
           IF MissingLayer(proto)
           THEN ret'[2] = NULL /\ src' = NULL
                /\ UNCHANGED << refcount, holds, proto, frames, dst, nAddr, freed, disposeRuns >>
           ELSE ret'[2] # NULL /\ src' = ret'[2]
      /\ (ret'[1] = "packet_dst_address" /\ dst = NULL) =>
           IF MissingLayer(proto)
           THEN ret'[2] = NULL /\ dst' = NULL
                /\ UNCHANGED << refcount, holds, proto, frames, src, nAddr, freed, disposeRuns >>
           ELSE ret'[2] # NULL /\ dst' = ret'[2]
    ]_vars

\* C7 witness: a source query that returned NULL with IP populated and no transport.
C7_Witness ==
  /\ ret = << "packet_src_address", NULL >> /\ src = NULL
  /\ proto[PACKET_PROTO_IP] # NULL
  /\ proto[PACKET_PROTO_UDP] = NULL /\ proto[PACKET_PROTO_TCP] = NULL

\* C8: packet_first_frame returns the first-appended frame and packet_time the
\* timestamp of the last-appended one, whatever the order of the timestamps;
\* with no frames they return NULL and 0; neither changes the frame list.
C8_AppendOrder ==
  [][ /\ ret'[1] = "packet_time" =>
           /\ ret'[2] = (IF Len(frames) = 0 THEN U64(0) ELSE frames[Len(frames)].ts)
           /\ frames' = frames
      /\ ret'[1] = "packet_first_frame" =>
           /\ ret'[2] = (IF Len(frames) = 0 THEN NULL ELSE << Head(frames) >>)
           /\ frames' = frames
    ]_vars

\* C8 witness: frames appended with timestamps 300, 100, 200 and packet_time giving 200.
C8_Witness ==
  /\ frames = << [ ts |-> U64(300) ], [ ts |-> U64(100) ], [ ts |-> U64(200) ] >>
  /\ ret = << "packet_time", U64(200) >>

\* C9: under any interleaving of packet_ref and packet_unref by threads that
\* release only what they hold, the count equals the references held, the teardown
\* never runs or is pending while a reference is held, and it runs once, after
\* the last release.
C9_ConcurrentRefcount ==
  LET pending == Cardinality({ t \in Threads : tpc[t] = "dispose" })
  IN /\ refcount = Sum(holds)
     /\ (disposeRuns + pending >= 1) => Sum(holds) = 0
     /\ disposeRuns + pending <= 1
     /\ Sum(holds) = 0 => disposeRuns + pending = 1

\* C9 witness: references were handed out, and thread 2 dropped the last one
\* and ran the teardown.
C9_Witness ==
  /\ acquired >= 2 /\ disposeRuns = 1
  /\ ret = << "packet_dispose", 2 >>

\* C10: packet_time_sorter is negative, zero or positive exactly as packet_time(a)
\* is below, equal to or above packet_time(b).
C10_ThreeWayCompare ==
  ret[1] = "packet_time_sorter" =>
    Sign(ret[2]) = Cmp64(packet_time(sortA), packet_time(sortB))

====
